---- MODULE Spec2Model ----
(***************************************************************************)
(* One night's cycle of alert_association/inter_night_associations.py:     *)
(* night_to_night_association, its three matching passes                   *)
(* (tracklets_associations, trajectories_associations,                     *)
(* old_observations_associations), prep_orbit_computation and the          *)
(* background workers running compute_orbit_elem.                          *)
(*                                                                         *)
(* A dataframe is a set of rows.  A trajectory row is                      *)
(*   [tid, candid, nid, nu, a]                                             *)
(* (trajectory_id, candid, nid, not_updated, orbital element "a"); an      *)
(* unattached observation is [candid, nid].                                *)
(***************************************************************************)
EXTENDS Integers, Sequences, FiniteSets, TLC

\* longest result the matcher returns in one call
MaxMatch == 2

\* sentinel of the orbital columns and a value standing for a computed orbit
NotComputed == -1
Computed == 1

\* prep_orbit_computation: a trajectory needs 3 points to go to orbit fitting
orbfit_limit == 3

\* night_to_night_association: 'for _ in range(3): q.get()'
NbReceive == 3

\* the parameters last_nid, next_nid and time_window of the modelled call
Night == [last_nid |-> 5, next_nid |-> 6, time_window |-> 3]

Workers == 1 .. 3

(***************************************************************************)
(* Dataframe helpers                                                       *)
(***************************************************************************)
Row(t, c, n, u, o) == [tid |-> t, candid |-> c, nid |-> n, nu |-> u, a |-> o]

Obs(c, n) == [candid |-> c, nid |-> n]

Max(S) == CHOOSE x \in S : \A y \in S : y <= x

Min(S) == CHOOSE x \in S : \A y \in S : x <= y

\* np.unique(df["trajectory_id"])
Ids(T) == {r.tid : r \in T}

Candids(T) == {r.candid : r \in T}

\* df[df["trajectory_id"] == id]
RowsOf(T, id) == {r \in T : r.tid = id}

\* nid of the last observation of trajectory id
\* (get_n_last_observations_from_trajectories(df, 1)["nid"])
LastNid(T, id) == Max({r.nid : r \in RowsOf(T, id)})

\* np.sort(np.unique(x))[::-1]
RECURSIVE SortDesc(_)
SortDesc(S) == IF S = {} THEN << >> ELSE <<Max(S)>> \o SortDesc(S \ {Max(S)})

\* an unattached observation as a trajectory row of trajectory t; the
\* observations of the main loop carry a = -1.0 and not_updated = True
AsRow(o, t, u) == Row(t, o.candid, o.nid, u, NotComputed)

(***************************************************************************)
(* External collaborators, modelled at their interface                     *)
(***************************************************************************)

\* sequences without repetition of at most n elements of S
RECURSIVE SeqsUpTo(_, _)
SeqsUpTo(S, n) ==
    IF n = 0 THEN {<< >>}
    ELSE LET shorter == SeqsUpTo(S, n - 1)
         IN  shorter \cup
             {Append(s, x) : s \in {t \in shorter : Len(t) = n - 1}, x \in S}

NoRepeat(s) == \A i, j \in DOMAIN s : i # j => s[i] # s[j]

\* night_to_night_trajectory_associations: the matched pairs, in the row order
\* of its result.  Entry [tid, right] is one row of the right-hand result:
\* "trajectory_id" is the matched left-hand trajectory and right names the
\* matched right-hand row (tmp_traj of a tracklet extremity, or the
\* observation).  Any list of distinct pairs may come back.
night_to_night_trajectory_associations(left_ids, rights) ==
    {m \in SeqsUpTo([tid : left_ids, right : rights], MaxMatch) : NoRepeat(m)}

\* time_window_management: a trajectory whose last observation is older than
\* the window is archived (oldest_traj), the others stay active
oldest_traj(df, next_nid, time_window) ==
    {r \in df : next_nid - LastNid(df, r.tid) > time_window}

most_recent_traj(df, next_nid, time_window) ==
    df \ oldest_traj(df, next_nid, time_window)

\* time_window_management: the old observations kept in the window
window_old_observation(obs, next_nid, time_window) ==
    {o \in obs : next_nid - o.nid <= time_window}

\* intra_night_association + new_trajectory_id_assignation: the night's
\* observations, taken in candid order, are cut into runs; a run of two or
\* more observations is a tracklet.  cuts holds the candids after which a run
\* ends.
RunOf(obs, cuts, c) ==
    {o \in obs : \A k \in cuts : ~(Min({o.candid, c}) <= k /\ k < Max({o.candid, c}))}

TrackletRuns(obs, cuts) ==
    {RunOf(obs, cuts, o.candid) : o \in {x \in obs : Cardinality(RunOf(obs, cuts, x.candid)) >= 2}}

\* the tracklets get the ids last_trajectory_id, last_trajectory_id + 1, ...
intra_night_tracklets(obs, cuts, first_id) ==
    LET runs == TrackletRuns(obs, cuts)
        rank(run) == Cardinality({s \in runs : Min(Candids(s)) < Min(Candids(run))})
    IN  UNION {{AsRow(o, first_id + rank(run), TRUE) : o \in run} : run \in runs}

\* compute_df_orbit_param + merge: every row whose orbit was not computed gets
\* orbital elements
compute_df_orbit_param(df) ==
    {IF r.a = NotComputed THEN [r EXCEPT !.a = Computed] ELSE r : r \in df}

\* Acceleration filter.  The rows of the model carry no sky position and no
\* date: an observation stands at the one-dimensional position ra and at the
\* date jd (8 ticks a night), velocities are kept as integers scaled by
\* Filter.scale, the threshold is given in the same scale.
Filter == [scale |-> 72, threshold |-> 10]

ra(o) == o.candid

jd(o) == (8 * o.nid) + (o.candid % 8)

Abs(x) == IF x < 0 THEN -x ELSE x

\* the observations in the order of their dates
RECURSIVE ByJd(_)
ByJd(O) ==
    IF O = {} THEN << >>
    ELSE LET first == CHOOSE o \in O : \A x \in O : jd(o) <= jd(x)
         IN  <<first>> \o ByJd(O \ {first})

\* angular velocity between consecutive points: separation over elapsed time
angular_velocity(pts) ==
    [k \in 1 .. Len(pts) - 1 |->
        (Abs(ra(pts[k + 1]) - ra(pts[k])) * Filter.scale)
            \div (jd(pts[k + 1]) - jd(pts[k]))]

\* finite difference of the velocity series
angular_acceleration(v) == [k \in 1 .. Len(v) - 1 |-> v[k + 1] - v[k]]

RECURSIVE SumAbs(_)
SumAbs(a) == IF a = << >> THEN 0 ELSE Abs(Head(a)) + SumAbs(Tail(a))

\* the trajectory has 3 points or more and its mean absolute acceleration is
\* above the threshold
acceleration_rejected(df, t) ==
    LET pts == ByJd({Obs(r.candid, r.nid) : r \in RowsOf(df, t)})
        acc == angular_acceleration(angular_velocity(pts))
    IN  /\ Len(pts) >= 3
        /\ SumAbs(acc) > Filter.threshold * Len(acc)

(***************************************************************************)
(* prep_orbit_computation                                                  *)
(***************************************************************************)
traj_length(df, id) == Cardinality(RowsOf(df, id))

track_to_orb(df) == {r \in df : traj_length(df, r.tid) >= orbfit_limit}

other_track(df) == {r \in df : traj_length(df, r.tid) < orbfit_limit}

(***************************************************************************)
(* The calls of night_to_night_association that are modelled               *)
(***************************************************************************)
TrajX(t) == {Row(t, 1, 1, TRUE, NotComputed), Row(t, 2, 2, TRUE, NotComputed)}

TrajA(t) == {Row(t, 3, 3, TRUE, NotComputed), Row(t, 4, 4, TRUE, NotComputed)}

TrajB(t, o) == {Row(t, 5, 3, TRUE, o), Row(t, 6, 4, TRUE, o), Row(t, 7, 5, TRUE, o)}

\* trajectory tables of the caller: not_updated is True on every row (the main
\* loop resets it after each night), ids are distinct
InputTrajectories ==
    {(IF "X" \in p THEN TrajX(ids[1]) ELSE {}) \cup
     (IF "A" \in p THEN TrajA(ids[2]) ELSE {}) \cup
     (IF "B" \in p THEN TrajB(ids[3], o) ELSE {}) :
        p \in SUBSET {"X", "A", "B"},
        ids \in {<<1, 2, 3>>, <<3, 1, 2>>},
        o \in {NotComputed, Computed}}

InputOldObservations ==
    {{}, {Obs(8, 5), Obs(9, 4), Obs(10, 2)}}

InputNewObservations ==
    {{}, {Obs(11, Night.next_nid)}, {Obs(c, Night.next_nid) : c \in 11 .. 15}}

(***************************************************************************)
(* State                                                                   *)
(***************************************************************************)
VARIABLES
    trajectory_df,        \* the caller's trajectory table
    old_observation,      \* the caller's old observations
    new_observation,      \* the caller's observations of the new night
    columns,              \* the columns the caller's trajectory table has
    pc,                   \* position of night_to_night_association
    last_trajectory_id,
    old_traj,             \* archived trajectories
    trajectories,         \* left-hand table of passes 1 and 2
    tracklets,            \* the night's tracklets: right of pass 1, left of pass 3
    new_observations,     \* remaining_new_observations
    old_observations,     \* old observations in the window, then remain_old_obs
    two_last,             \* [tid, nid] of the trajectories the current pass offers
    extremity,            \* tracklets_extremity of pass 1
    nids,                 \* night ids the loop of the current pass still has to do
    other_traj,           \* short trajectories left by pass 2
    not_updated_tracklets,
    batch,                \* the table each worker was started with
    wstate,               \* "idle", "running", "put", "returned", "failed"
    q,                    \* the mp.Queue
    tmp_traj_orb_elem,    \* what the orchestrator received
    terminated,           \* the workers the orchestrator called terminate() on
    ret,                  \* what night_to_night_association returned
    report,               \* the per-nid entries of the pass reports
    pass_in,              \* the two tables the current pass was called with
    last_call,            \* the matcher result of the last nid iteration
    minted                \* the ids the passes minted for forks

vars == <<trajectory_df, old_observation, new_observation, columns, pc,
          last_trajectory_id,
          old_traj, trajectories, tracklets, new_observations, old_observations,
          two_last, extremity, nids, other_traj, not_updated_tracklets, batch,
          wstate, q, tmp_traj_orb_elem, terminated, ret, report, pass_in,
          last_call, minted>>

orch_vars == <<pc, last_trajectory_id, old_traj, trajectories, tracklets,
               new_observations, old_observations, two_last, extremity, nids,
               other_traj, not_updated_tracklets, tmp_traj_orb_elem, terminated,
               ret, report, pass_in, last_call, minted>>

\* the columns of the trajectory table the module reads by name: line 1409,
\* lines 178-180, 549-551, 1464-1465 and 1258-1259
RequiredColumns == {"trajectory_id", "not_updated", "a"}

\* df[c] of the caller's trajectory table does not raise KeyError
Has(c) == c \in columns

NoCall == [pass |-> 0, nid |-> 0, m |-> << >>, left |-> {}, right |-> {}]

NoPass == [pass |-> 0, left |-> {}, right |-> {}]

\* the report of a pass that returned at its first line: {}
NoReport == [ran |-> FALSE, entries |-> << >>, updated |-> {}]

NoRet == [done |-> FALSE, trajectory_df |-> {}, old_observation |-> {}]

Init ==
    /\ trajectory_df \in InputTrajectories
    /\ old_observation \in InputOldObservations
    /\ new_observation \in InputNewObservations
    /\ columns = RequiredColumns
    /\ pc = "start"
    /\ last_trajectory_id = 0
    /\ old_traj = {}
    /\ trajectories = {}
    /\ tracklets = {}
    /\ new_observations = {}
    /\ old_observations = {}
    /\ two_last = {}
    /\ extremity = {}
    /\ nids = << >>
    /\ other_traj = {}
    /\ not_updated_tracklets = {}
    /\ batch = [w \in Workers |-> {}]
    /\ wstate = [w \in Workers |-> "idle"]
    /\ q = << >>
    /\ tmp_traj_orb_elem = << >>
    /\ terminated = {}
    /\ ret = NoRet
    /\ report = [p \in 1 .. 3 |-> NoReport]
    /\ pass_in = NoPass
    /\ last_call = NoCall
    /\ minted = {}

inputs_unchanged ==
    UNCHANGED <<trajectory_df, old_observation, new_observation, columns>>

(***************************************************************************)
(* night_to_night_association, lines 1409-1427: allocator seed, window     *)
(* management, intra-night step                                            *)
(***************************************************************************)
\* seed_last_trajectory_id counting from 0 when there is no trajectory
seed_last_trajectory_id_zero(df) == IF df = {} THEN 0 ELSE Max(Ids(df)) + 1

\* np.nan_to_num(np.max(trajectory_df["trajectory_id"])) + 1
seed_last_trajectory_id(df) == (IF df = {} THEN 0 ELSE Max(Ids(df))) + 1

\* intra_night_step with the whole trajectory table handed to the passes
intra_night_step_whole_table ==
    /\ pc = "start"
    /\ last_trajectory_id' = seed_last_trajectory_id(trajectory_df)
    /\ old_traj' = oldest_traj(trajectory_df, Night.next_nid, Night.time_window)
    /\ trajectories' = trajectory_df
    /\ old_observations' =
           window_old_observation(old_observation, Night.next_nid, Night.time_window)
    /\ \E cuts \in SUBSET (Candids(new_observation) \ {Max(Candids(new_observation) \cup {0})}) :
          /\ tracklets' = intra_night_tracklets(new_observation, cuts, last_trajectory_id')
          /\ new_observations' =
                 {o \in new_observation : o.candid \notin Candids(tracklets')}
    /\ pc' = IF trajectory_df = {} THEN "empty_branch" ELSE "pass1"
    /\ UNCHANGED <<two_last, extremity, nids, other_traj, not_updated_tracklets,
                   batch, wstate, q, tmp_traj_orb_elem, terminated, ret, report,
                   pass_in, last_call, minted>>
    /\ inputs_unchanged

\* lines 1409-1425
intra_night_step ==
    /\ pc = "start"
    /\ Has("trajectory_id")
    /\ last_trajectory_id' = seed_last_trajectory_id(trajectory_df)
    /\ old_traj' = oldest_traj(trajectory_df, Night.next_nid, Night.time_window)
    /\ trajectories' = most_recent_traj(trajectory_df, Night.next_nid, Night.time_window)
    /\ old_observations' =
           window_old_observation(old_observation, Night.next_nid, Night.time_window)
    /\ \E cuts \in SUBSET (Candids(new_observation) \ {Max(Candids(new_observation) \cup {0})}) :
          /\ tracklets' = intra_night_tracklets(new_observation, cuts, last_trajectory_id')
          /\ new_observations' =
                 {o \in new_observation : o.candid \notin Candids(tracklets')}
    /\ pc' = IF trajectory_df = {} THEN "empty_branch" ELSE "pass1"
    /\ UNCHANGED <<two_last, extremity, nids, other_traj, not_updated_tracklets,
                   batch, wstate, q, tmp_traj_orb_elem, terminated, ret, report,
                   pass_in, last_call, minted>>
    /\ inputs_unchanged

(***************************************************************************)
(* Background workers: compute_orbit_elem in its own process               *)
(***************************************************************************)
\* process.start()
start_process(w, df) ==
    /\ batch' = [batch EXCEPT ![w] = df]
    /\ wstate' = [wstate EXCEPT ![w] = "running"]

\* compute_orbit_elem, lines 1255-1256: an empty table is returned, nothing is
\* put on the queue
compute_orbit_elem_empty(w) ==
    /\ wstate[w] = "running"
    /\ batch[w] = {}
    /\ wstate' = [wstate EXCEPT ![w] = "returned"]
    /\ UNCHANGED <<batch, q>>
    /\ UNCHANGED orch_vars
    /\ inputs_unchanged

\* compute_orbit_elem without the concatenation of traj_with_orbelem: only the
\* trajectories whose orbit was computed now are put on the queue
compute_orbit_elem_computed_only(w) ==
    /\ wstate[w] = "running"
    /\ batch[w] # {}
    /\ q' = Append(q, compute_df_orbit_param({r \in batch[w] : r.a = NotComputed}))
    /\ wstate' = [wstate EXCEPT ![w] = "put"]
    /\ UNCHANGED batch
    /\ UNCHANGED orch_vars
    /\ inputs_unchanged

\* compute_orbit_elem, lines 1258-1293: the orbits are computed and the table
\* is put on the queue
compute_orbit_elem(w) ==
    /\ wstate[w] = "running"
    /\ batch[w] # {}
    /\ Has("a")
    /\ q' = Append(q, compute_df_orbit_param(batch[w]))
    /\ wstate' = [wstate EXCEPT ![w] = "put"]
    /\ UNCHANGED batch
    /\ UNCHANGED orch_vars
    /\ inputs_unchanged

\* compute_orbit_elem raises (os.mkdir, compute_df_orbit_param) or the process
\* dies before q.put
compute_orbit_elem_fails(w) ==
    /\ wstate[w] = "running"
    /\ wstate' = [wstate EXCEPT ![w] = "failed"]
    /\ UNCHANGED <<batch, q>>
    /\ UNCHANGED orch_vars
    /\ inputs_unchanged

\* the scratch directory of worker w, os.path.join(ram_dir, str(pid), ""): made
\* by the first statement of compute_orbit_elem (lines 1251-1253), removed by
\* os.rmdir only on the path that computes, right before q.put (lines
\* 1291-1292); the return of the empty table (line 1256) leaves it.  After a
\* failure the directory is there or not, depending on the statement that raised.
current_ram_path(w) ==
    CASE wstate[w] \in {"idle", "running", "put"} -> "absent"
      [] wstate[w] = "returned" -> "present"
      [] OTHER -> "unknown"

(***************************************************************************)
(* night_to_night_association, lines 1427-1441: no recorded trajectory     *)
(***************************************************************************)
empty_branch_start ==
    /\ pc = "empty_branch"
    /\ start_process(1, track_to_orb(tracklets))
    /\ tracklets' = other_track(tracklets)
    /\ pc' = "empty_get"
    /\ UNCHANGED <<last_trajectory_id, old_traj, trajectories, new_observations,
                   old_observations, two_last, extremity, nids, other_traj,
                   not_updated_tracklets, q, tmp_traj_orb_elem, terminated, ret,
                   report, pass_in, last_call, minted>>
    /\ inputs_unchanged

\* track_with_orb_elem = q.get(); process.terminate(); return
empty_branch_return ==
    /\ pc = "empty_get"
    /\ q # << >>
    /\ tmp_traj_orb_elem' = Append(tmp_traj_orb_elem, Head(q))
    /\ q' = Tail(q)
    /\ terminated' = terminated \cup {1}
    /\ ret' = [done |-> TRUE,
               trajectory_df |-> tracklets \cup Head(q),
               old_observation |-> new_observations]
    /\ pc' = "returned"
    /\ UNCHANGED <<last_trajectory_id, old_traj, trajectories, tracklets,
                   new_observations, old_observations, two_last, extremity, nids,
                   other_traj, not_updated_tracklets, batch, wstate, report,
                   pass_in, last_call, minted>>
    /\ inputs_unchanged

(***************************************************************************)
(* The criteria handed to the matcher in one nid iteration                 *)
(***************************************************************************)
\* the configured criteria of the modelled call; integers stand for the
\* angles and magnitudes
Criteria == [sep_criterion |-> 2, mag_criterion_same_fid |-> 3,
             mag_criterion_diff_fid |-> 5, angle_criterion |-> 7]

\* 'diff_night = next_nid - tr_nid'
diff_night(tr_nid) == Night.next_nid - tr_nid

\* trajectory_matcher_criteria with the configured values handed over as they are
trajectory_matcher_criteria_unscaled(tr_nid) ==
    [norm_sep_crit |-> Criteria.sep_criterion,
     norm_same_fid |-> Criteria.mag_criterion_same_fid,
     norm_diff_fid |-> Criteria.mag_criterion_diff_fid,
     angle_criterion |-> Criteria.angle_criterion]

\* passes 1 to 3: the last four arguments of night_to_night_trajectory_associations
trajectory_matcher_criteria(tr_nid) ==
    [norm_sep_crit |-> Criteria.sep_criterion * diff_night(tr_nid),
     norm_same_fid |-> Criteria.mag_criterion_same_fid * diff_night(tr_nid),
     norm_diff_fid |-> Criteria.mag_criterion_diff_fid * diff_night(tr_nid),
     angle_criterion |-> Criteria.angle_criterion]

\* pass 4: the last three arguments of night_to_night_observation_association
observation_matcher_criteria(obs_nid) ==
    [norm_sep_crit |-> Criteria.sep_criterion * diff_night(obs_nid),
     norm_same_fid |-> Criteria.mag_criterion_same_fid * diff_night(obs_nid),
     norm_diff_fid |-> Criteria.mag_criterion_diff_fid * diff_night(obs_nid)]

(***************************************************************************)
(* Duplicate management shared by the three passes                         *)
(***************************************************************************)
\* Series.duplicated(): the rows whose trajectory_id already came in an
\* earlier row of the matcher's result
duplicated(m) == {i \in DOMAIN m : \E j \in 1 .. i - 1 : m[j].tid = m[i].tid}

\* 'max_traj_id = np.max(np.unique(df["trajectory_id"]))', then
\* 'max_traj_id += 1' for each duplicated row, in row order
fork_id(df, m, i) == Max(Ids(df)) + Cardinality({j \in duplicated(m) : j <= i})

\* mark_updated on the rows the night brought only: the rows the trajectory
\* already had keep their flag
mark_updated_new_rows_only(df, ids) ==
    {IF r.tid \in ids /\ r.nid = Night.next_nid THEN [r EXCEPT !.nu = FALSE] ELSE r :
        r \in df}

\* 'df.loc[tr_updated_index, "not_updated"] = False'
mark_updated(df, ids) == {IF r.tid \in ids THEN [r EXCEPT !.nu = FALSE] ELSE r : r \in df}

\* nid_report with the count left at the 0 it is initialised with
nid_report_count_left_zero(tr_nid, m, has_dup) ==
    [nid |-> tr_nid, nb |-> Len(m), has_dup |-> has_dup, dup |-> 0]

\* one entry of "all nid report"; has_dup tells whether the entry holds the key
\* "number of duplicated association"
nid_report(tr_nid, m, has_dup) ==
    [nid |-> tr_nid, nb |-> Len(m), has_dup |-> has_dup,
     dup |-> Len(m) - Cardinality(DOMAIN m \ duplicated(m))]

\* the ids held by some row of the cycle
LiveIds ==
    Ids(old_traj \cup trajectories \cup tracklets \cup other_traj
        \cup not_updated_tracklets \cup batch[1] \cup batch[2] \cup batch[3])

\* the record kept of each fork minted in nid iteration tr_nid of pass p
mint(p, tr_nid, df, m) ==
    {[pass |-> p, nid |-> tr_nid, id |-> fork_id(df, m, i), parent |-> m[i].tid,
      held |-> fork_id(df, m, i) \in LiveIds \cup {x.id : x \in minted}] :
        i \in duplicated(m)}

(***************************************************************************)
(* Pass 1: tracklets_associations                                          *)
(***************************************************************************)
\* tracklets_duplicates with the selection of the matched trajectory lost: the
\* copy takes every row of the table
tracklets_duplicates_whole_table(trs, tks, m) ==
    UNION {{[r EXCEPT !.tid = fork_id(trs, m, i), !.nu = FALSE] :
               r \in trs \cup RowsOf(tks, m[i].right)} :
           i \in duplicated(m)}

\* lines 256-283: a copy of the trajectory and the tracklet of each duplicated
\* row, under a new id
tracklets_duplicates(trs, tks, m) ==
    UNION {{[r EXCEPT !.tid = fork_id(trs, m, i), !.nu = FALSE] :
               r \in RowsOf(trs, m[i].tid) \cup RowsOf(tks, m[i].right)} :
           i \in duplicated(m)}

\* lines 285-289: the tracklets of the duplicated rows leave the pool
tracklets_without_duplicates(tks, m) ==
    {r \in tks : r.tid \notin {m[i].right : i \in duplicated(m)}}

\* lines 308-324: the tracklets of the other rows take the trajectory's id
associated_tracklets(tks, m) ==
    UNION {{[r EXCEPT !.tid = m[i].tid] :
               r \in RowsOf(tracklets_without_duplicates(tks, m), m[i].right)} :
           i \in DOMAIN m \ duplicated(m)}

\* lines 283, 334-345: the trajectories after one nid iteration
tracklets_associations_trajectories(trs, tks, m) ==
    mark_updated(trs \cup tracklets_duplicates(trs, tks, m) \cup associated_tracklets(tks, m),
                 Ids(associated_tracklets(tks, m)))

\* lines 285-289, 327-331: the tracklet pool after one nid iteration
tracklets_associations_tracklets(tks, m) ==
    {r \in tracklets_without_duplicates(tks, m) :
        r.tid \notin {m[i].right : i \in DOMAIN m \ duplicated(m)}}

\* lines 279, 291-293: updated_trajectories
tracklets_associations_updated(trs, m) ==
    {fork_id(trs, m, i) : i \in duplicated(m)} \cup {m[i].tid : i \in DOMAIN m}

\* not_updated_tails without the selection on the orbital elements
not_updated_tails_any_orbit(trs) ==
    LET trajectories_not_updated == {r \in trs : r.nu}
    IN  {[tid |-> t, nid |-> LastNid(trajectories_not_updated, t)] :
            t \in Ids(trajectories_not_updated)}

\* lines 178-200: the trajectories offered to the matcher, with the night of
\* their last observation
not_updated_tails(trs) ==
    LET trajectories_not_updated == {r \in trs : r.nu /\ r.a = NotComputed}
    IN  {[tid |-> t, nid |-> LastNid(trajectories_not_updated, t)] :
            t \in Ids(trajectories_not_updated)}

\* lines 174-203
tracklets_associations_begin ==
    /\ pc = "pass1"
    /\ trajectories # {} /\ tracklets # {} => Has("not_updated") /\ Has("a")
    /\ IF trajectories = {} \/ tracklets = {}
       THEN /\ UNCHANGED <<two_last, extremity, nids, report>>
       ELSE /\ two_last' = not_updated_tails(trajectories)
            /\ extremity' = Ids(tracklets)
            /\ nids' = SortDesc({x.nid : x \in two_last'})
            /\ report' = [report EXCEPT ![1] = [NoReport EXCEPT !.ran = TRUE]]
    /\ pass_in' = [pass |-> 1, left |-> trajectories, right |-> tracklets]
    /\ pc' = "pass1_loop"
    /\ UNCHANGED <<last_trajectory_id, old_traj, trajectories, tracklets,
                   new_observations, old_observations, other_traj,
                   not_updated_tracklets, batch, wstate, q, tmp_traj_orb_elem,
                   terminated, ret, last_call, minted>>
    /\ inputs_unchanged

\* lines 206-370: one turn of 'for tr_nid in trajectories_nid'
tracklets_associations_nid ==
    /\ pc = "pass1_loop"
    /\ nids # << >>
    /\ LET tr_nid == Head(nids)
           two_last_current_nid == {x.tid : x \in {y \in two_last : y.nid = tr_nid}}
       IN  \E m \in night_to_night_trajectory_associations(two_last_current_nid, extremity) :
              /\ trajectories' = tracklets_associations_trajectories(trajectories, tracklets, m)
              /\ tracklets' = tracklets_associations_tracklets(tracklets, m)
              /\ report' = [report EXCEPT
                     ![1].entries = Append(@, nid_report(tr_nid, m, Len(m) > 0)),
                     ![1].updated = @ \cup tracklets_associations_updated(trajectories, m)]
              /\ minted' = minted \cup mint(1, tr_nid, trajectories, m)
              /\ last_call' = [pass |-> 1, nid |-> tr_nid, m |-> m,
                               criteria |-> trajectory_matcher_criteria(tr_nid),
                               left |-> trajectories, right |-> tracklets]
    /\ nids' = Tail(nids)
    /\ UNCHANGED <<pc, last_trajectory_id, old_traj, new_observations,
                   old_observations, two_last, extremity, other_traj,
                   not_updated_tracklets, batch, wstate, q, tmp_traj_orb_elem,
                   terminated, ret, pass_in>>
    /\ inputs_unchanged

\* night_to_night_association, lines 1464-1477: split on not_updated,
\* prep_orbit_computation of the remaining tracklets, first worker
start_tracklets_orbfit_process ==
    /\ pc = "pass1_loop"
    /\ nids = << >>
    /\ Has("not_updated")
    /\ start_process(1, {r \in trajectories : ~r.nu} \cup track_to_orb(tracklets))
    /\ trajectories' = {r \in trajectories : r.nu}
    /\ tracklets' = other_track(tracklets)
    /\ pc' = "pass2"
    /\ pass_in' = NoPass
    /\ last_call' = NoCall
    /\ UNCHANGED <<last_trajectory_id, old_traj, new_observations, old_observations,
                   two_last, extremity, nids, other_traj, not_updated_tracklets, q,
                   tmp_traj_orb_elem, terminated, ret, report, minted>>
    /\ inputs_unchanged

(***************************************************************************)
(* Pass 2: trajectories_associations; pass 3: old_observations_associations*)
(***************************************************************************)
\* lines 647-676 and 971-1000: a copy of the left-hand trajectory of each
\* duplicated row, with the row's observation, under a new id; the orbit
\* columns of the copy are reset
observation_duplicates(df, m) ==
    UNION {{[r EXCEPT !.tid = fork_id(df, m, i), !.nu = FALSE, !.a = NotComputed] :
               r \in RowsOf(df, m[i].tid)}
           \cup {AsRow(m[i].right, fork_id(df, m, i), FALSE)} :
           i \in duplicated(m)}

\* lines 683-690 and 1004-1013: the rows that are not duplicated, under the
\* trajectory_id the matcher gave them
observation_associated(m) ==
    {AsRow(m[i].right, m[i].tid, TRUE) : i \in DOMAIN m \ duplicated(m)}

\* lines 676-701 and 1000-1035: the left-hand table after one nid iteration
observations_attached(df, m) ==
    mark_updated(df \cup observation_duplicates(df, m) \cup observation_associated(m),
                 Ids(observation_associated(m)))

\* without_associated taken after the duplicated rows were dropped: the
\* observation of a duplicated row stays in the right-hand table
without_associated_first_rows_only(obs, m) ==
    {o \in obs : o.candid \notin {m[i].right.candid : i \in DOMAIN m \ duplicated(m)}}

\* lines 607-609 and 934-936: the matched observations leave the right-hand table
without_associated(obs, m) ==
    {o \in obs : o.candid \notin {m[i].right.candid : i \in DOMAIN m}}

\* lines 671, 678-680: updated_trajectories
trajectories_associations_updated(df, m) ==
    {fork_id(df, m, i) : i \in duplicated(m)} \cup {m[i].tid : i \in DOMAIN m}

\* lines 995, 1022-1024: updated_tracklets; the union with the result's ids is
\* taken after the duplicated rows were dropped, the ids are the same
old_observations_associations_updated(df, m) ==
    {fork_id(df, m, i) : i \in duplicated(m)}
        \cup {m[i].tid : i \in DOMAIN m \ duplicated(m)}

\* trajectories_associations_begin with the selection on the orbit lost: every
\* not-updated trajectory is offered to the matcher
trajectories_associations_begin_any_orbit ==
    /\ pc = "pass2"
    /\ trajectories # {} /\ new_observations # {} => Has("not_updated") /\ Has("a")
    /\ IF trajectories = {} \/ new_observations = {}
       THEN /\ nids' = << >>
            /\ UNCHANGED <<two_last, report>>
       ELSE /\ two_last' = not_updated_tails_any_orbit(trajectories)
            /\ nids' = SortDesc({x.nid : x \in two_last'})
            /\ report' = [report EXCEPT ![2] = [NoReport EXCEPT !.ran = TRUE]]
    /\ pass_in' = [pass |-> 2, left |-> trajectories,
                   right |-> {AsRow(o, 0, TRUE) : o \in new_observations}]
    /\ pc' = "pass2_loop"
    /\ UNCHANGED <<last_trajectory_id, old_traj, trajectories, tracklets,
                   new_observations, old_observations, extremity, other_traj,
                   not_updated_tracklets, batch, wstate, q, tmp_traj_orb_elem,
                   terminated, ret, last_call, minted>>
    /\ inputs_unchanged

\* lines 545-570
trajectories_associations_begin ==
    /\ pc = "pass2"
    /\ trajectories # {} /\ new_observations # {} => Has("not_updated") /\ Has("a")
    /\ IF trajectories = {} \/ new_observations = {}
       THEN /\ nids' = << >>
            /\ UNCHANGED <<two_last, report>>
       ELSE /\ two_last' = not_updated_tails(trajectories)
            /\ nids' = SortDesc({x.nid : x \in two_last'})
            /\ report' = [report EXCEPT ![2] = [NoReport EXCEPT !.ran = TRUE]]
    /\ pass_in' = [pass |-> 2, left |-> trajectories,
                   right |-> {AsRow(o, 0, TRUE) : o \in new_observations}]
    /\ pc' = "pass2_loop"
    /\ UNCHANGED <<last_trajectory_id, old_traj, trajectories, tracklets,
                   new_observations, old_observations, extremity, other_traj,
                   not_updated_tracklets, batch, wstate, q, tmp_traj_orb_elem,
                   terminated, ret, last_call, minted>>
    /\ inputs_unchanged

\* lines 573-716: one turn of 'for tr_nid in trajectories_nid'
trajectories_associations_nid ==
    /\ pc = "pass2_loop"
    /\ nids # << >>
    /\ LET tr_nid == Head(nids)
           two_last_current_nid == {x.tid : x \in {y \in two_last : y.nid = tr_nid}}
       IN  \E m \in night_to_night_trajectory_associations(two_last_current_nid, new_observations) :
              /\ new_observations' = without_associated(new_observations, m)
              /\ trajectories' = observations_attached(trajectories, m)
              /\ report' = [report EXCEPT
                     ![2].entries = Append(@, nid_report(tr_nid, m, TRUE)),
                     ![2].updated = @ \cup trajectories_associations_updated(trajectories, m)]
              /\ minted' = minted \cup mint(2, tr_nid, trajectories, m)
              /\ last_call' = [pass |-> 2, nid |-> tr_nid, m |-> m,
                               criteria |-> trajectory_matcher_criteria(tr_nid),
                               left |-> trajectories,
                               right |-> {AsRow(o, 0, TRUE) : o \in new_observations}]
    /\ nids' = Tail(nids)
    /\ UNCHANGED <<pc, last_trajectory_id, old_traj, tracklets, old_observations,
                   two_last, extremity, other_traj, not_updated_tracklets, batch,
                   wstate, q, tmp_traj_orb_elem, terminated, ret, pass_in>>
    /\ inputs_unchanged

\* night_to_night_association, lines 1499-1504: prep_orbit_computation of the
\* result of pass 2, second worker
start_trajectories_orbfit_process ==
    /\ pc = "pass2_loop"
    /\ nids = << >>
    /\ start_process(2, track_to_orb(trajectories))
    /\ other_traj' = other_track(trajectories)
    /\ pc' = "pass3"
    /\ pass_in' = NoPass
    /\ last_call' = NoCall
    /\ UNCHANGED <<last_trajectory_id, old_traj, trajectories, tracklets,
                   new_observations, old_observations, two_last, extremity, nids,
                   not_updated_tracklets, q, tmp_traj_orb_elem, terminated, ret,
                   report, minted>>
    /\ inputs_unchanged

\* lines 885-900
old_observations_associations_begin ==
    /\ pc = "pass3"
    /\ IF tracklets = {} \/ old_observations = {}
       THEN /\ nids' = << >>
            /\ UNCHANGED <<two_last, report>>
       ELSE /\ two_last' = {[tid |-> t, nid |-> Night.next_nid] : t \in Ids(tracklets)}
            /\ nids' = SortDesc({o.nid : o \in old_observations})
            /\ report' = [report EXCEPT ![3] = [NoReport EXCEPT !.ran = TRUE]]
    /\ pass_in' = [pass |-> 3, left |-> tracklets,
                   right |-> {AsRow(o, 0, TRUE) : o \in old_observations}]
    /\ pc' = "pass3_loop"
    /\ UNCHANGED <<last_trajectory_id, old_traj, trajectories, tracklets,
                   new_observations, old_observations, extremity, other_traj,
                   not_updated_tracklets, batch, wstate, q, tmp_traj_orb_elem,
                   terminated, ret, last_call, minted>>
    /\ inputs_unchanged

\* lines 902-1063: one turn of 'for obs_nid in old_obs_nid'
old_observations_associations_nid ==
    /\ pc = "pass3_loop"
    /\ nids # << >>
    /\ LET obs_nid == Head(nids)
           current_old_obs == {o \in old_observations : o.nid = obs_nid}
           two_first_obs_tracklets == {x.tid : x \in two_last}
       IN  \E m \in night_to_night_trajectory_associations(two_first_obs_tracklets, current_old_obs) :
              /\ old_observations' = without_associated(old_observations, m)
              /\ tracklets' = observations_attached(tracklets, m)
              /\ two_last' = {x \in two_last : x.tid \notin {m[i].tid : i \in DOMAIN m}}
              /\ report' = [report EXCEPT
                     ![3].entries = Append(@, nid_report(obs_nid, m, TRUE)),
                     ![3].updated = @ \cup old_observations_associations_updated(tracklets, m)]
              /\ minted' = minted \cup mint(3, obs_nid, tracklets, m)
              /\ last_call' = [pass |-> 3, nid |-> obs_nid, m |-> m,
                               criteria |-> trajectory_matcher_criteria(obs_nid),
                               left |-> tracklets,
                               right |-> {AsRow(o, 0, TRUE) : o \in old_observations}]
    /\ nids' = Tail(nids)
    /\ UNCHANGED <<pc, last_trajectory_id, old_traj, trajectories, new_observations,
                   extremity, other_traj, not_updated_tracklets, batch, wstate, q,
                   tmp_traj_orb_elem, terminated, ret, pass_in>>
    /\ inputs_unchanged

\* night_to_night_association, lines 1525-1531: split on not_updated, third worker
start_tracklets_with_new_obs_orbfit_process ==
    /\ pc = "pass3_loop"
    /\ nids = << >>
    /\ start_process(3, {r \in tracklets : ~r.nu})
    /\ not_updated_tracklets' = {r \in tracklets : r.nu}
    /\ pc' = "get"
    /\ pass_in' = NoPass
    /\ last_call' = NoCall
    /\ UNCHANGED <<last_trajectory_id, old_traj, trajectories, tracklets,
                   new_observations, old_observations, two_last, extremity, nids,
                   other_traj, q, tmp_traj_orb_elem, terminated, ret, report, minted>>
    /\ inputs_unchanged

(***************************************************************************)
(* night_to_night_association, lines 1535-1564: join and return            *)
(***************************************************************************)
\* queue_get with the join moved before the third worker is started
queue_get_before_third_start ==
    /\ pc \in {"pass3_loop", "get"}
    /\ Len(tmp_traj_orb_elem) < NbReceive
    /\ q # << >>
    /\ tmp_traj_orb_elem' = Append(tmp_traj_orb_elem, Head(q))
    /\ q' = Tail(q)
    /\ UNCHANGED <<pc, last_trajectory_id, old_traj, trajectories, tracklets,
                   new_observations, old_observations, two_last, extremity, nids,
                   other_traj, not_updated_tracklets, batch, wstate, terminated,
                   ret, report, pass_in, last_call, minted>>
    /\ inputs_unchanged

\* 'tmp_traj_orb_elem.append(q.get())': blocks while the queue is empty
queue_get ==
    /\ pc = "get"
    /\ Len(tmp_traj_orb_elem) < NbReceive
    /\ q # << >>
    /\ tmp_traj_orb_elem' = Append(tmp_traj_orb_elem, Head(q))
    /\ q' = Tail(q)
    /\ UNCHANGED <<pc, last_trajectory_id, old_traj, trajectories, tracklets,
                   new_observations, old_observations, two_last, extremity, nids,
                   other_traj, not_updated_tracklets, batch, wstate, terminated,
                   ret, report, pass_in, last_call, minted>>
    /\ inputs_unchanged

\* lines 1541-1542: the processes terminate() is called on
terminated_processes == {1, 2}

\* returned_trajectory_df with only the first received table kept
returned_trajectory_df_first_result ==
    old_traj \cup tmp_traj_orb_elem[1] \cup other_traj \cup not_updated_tracklets

\* lines 1539, 1545-1547, 1562: the returned trajectory table
returned_trajectory_df ==
    old_traj \cup UNION {tmp_traj_orb_elem[i] : i \in DOMAIN tmp_traj_orb_elem}
             \cup other_traj \cup not_updated_tracklets

\* night_to_night_association_return with the table received first left out of
\* the concatenation
night_to_night_association_return_without_first_get ==
    /\ pc = "get"
    /\ Len(tmp_traj_orb_elem) = NbReceive
    /\ terminated' = terminated \cup terminated_processes
    /\ ret' = [done |-> TRUE,
               trajectory_df |->
                   old_traj \cup UNION {tmp_traj_orb_elem[i] : i \in 2 .. NbReceive}
                            \cup other_traj \cup not_updated_tracklets,
               old_observation |-> old_observations \cup new_observations]
    /\ pc' = "returned"
    /\ UNCHANGED <<last_trajectory_id, old_traj, trajectories, tracklets,
                   new_observations, old_observations, two_last, extremity, nids,
                   other_traj, not_updated_tracklets, batch, wstate, q,
                   tmp_traj_orb_elem, report, pass_in, last_call, minted>>
    /\ inputs_unchanged

\* lines 1539-1564
night_to_night_association_return ==
    /\ pc = "get"
    /\ Len(tmp_traj_orb_elem) = NbReceive
    /\ terminated' = terminated \cup terminated_processes
    /\ ret' = [done |-> TRUE,
               trajectory_df |-> returned_trajectory_df,
               old_observation |-> old_observations \cup new_observations]
    /\ pc' = "returned"
    /\ UNCHANGED <<last_trajectory_id, old_traj, trajectories, tracklets,
                   new_observations, old_observations, two_last, extremity, nids,
                   other_traj, not_updated_tracklets, batch, wstate, q,
                   tmp_traj_orb_elem, report, pass_in, last_call, minted>>
    /\ inputs_unchanged

Next ==
    \/ intra_night_step
    \/ empty_branch_start
    \/ empty_branch_return
    \/ tracklets_associations_begin
    \/ tracklets_associations_nid
    \/ start_tracklets_orbfit_process
    \/ trajectories_associations_begin
    \/ trajectories_associations_nid
    \/ start_trajectories_orbfit_process
    \/ old_observations_associations_begin
    \/ old_observations_associations_nid
    \/ start_tracklets_with_new_obs_orbfit_process
    \/ queue_get
    \/ night_to_night_association_return
    \/ \E w \in Workers : compute_orbit_elem_empty(w)
    \/ \E w \in Workers : compute_orbit_elem(w)
    \/ \E w \in Workers : compute_orbit_elem_fails(w)

Spec == Init /\ [][Next]_vars

(***************************************************************************)
(* Pass 4: observations_associations, called on its own (lines 1075-1230). *)
(* Its parameters and locals are held by old_observations,                 *)
(* new_observations, last_trajectory_id and trajectory_df; a row of its    *)
(* trajectory_df is an observation with a trajectory_id, [tid, candid, nid]*)
(***************************************************************************)
\* night_to_night_observation_association: the matched pairs; row i of
\* left_assoc is m[i].left, row i of right_assoc is m[i].right.  Any list of
\* distinct pairs may come back.
night_to_night_observation_association(lefts, rights) ==
    {m \in SeqsUpTo([left : lefts, right : rights], MaxMatch) : NoRepeat(m)}

\* the calls of observations_associations that are modelled
Pass4OldObservations == SUBSET {Obs(8, 5), Obs(9, 5), Obs(10, 4)}

Pass4NewObservations == SUBSET {Obs(11, Night.next_nid), Obs(12, Night.next_nid)}

Pass4LastTrajectoryId == {0, 7}

InitPass4 ==
    /\ old_observations \in Pass4OldObservations
    /\ new_observations \in Pass4NewObservations
    /\ last_trajectory_id \in Pass4LastTrajectoryId
    /\ pc = "pass4"
    /\ trajectory_df = {}
    /\ old_observation = {}
    /\ new_observation = {}
    /\ columns = RequiredColumns
    /\ old_traj = {}
    /\ trajectories = {}
    /\ tracklets = {}
    /\ two_last = {}
    /\ extremity = {}
    /\ nids = << >>
    /\ other_traj = {}
    /\ not_updated_tracklets = {}
    /\ batch = [w \in Workers |-> {}]
    /\ wstate = [w \in Workers |-> "idle"]
    /\ q = << >>
    /\ tmp_traj_orb_elem = << >>
    /\ terminated = {}
    /\ ret = NoRet
    /\ report = [p \in {4} |-> NoReport]
    /\ pass_in = NoPass
    /\ last_call = NoCall
    /\ minted = {}

pass4_frame ==
    UNCHANGED <<old_observation, new_observation, columns, old_traj, trajectories,
                tracklets, two_last, extremity, other_traj, not_updated_tracklets,
                batch, wstate, q, tmp_traj_orb_elem, terminated, minted>>

\* lines 1193-1195: np.arange(last_trajectory_id, last_trajectory_id + len(left_assoc))
new_trajectory_id(last_id, m, i) == last_id + i - 1

\* lines 1213-1217: the two rows of each match under the id of the match
new_two_point_trajectories(last_id, m) ==
    UNION {{[tid |-> new_trajectory_id(last_id, m, i),
             candid |-> o.candid, nid |-> o.nid] : o \in {m[i].left, m[i].right}} :
           i \in DOMAIN m}

\* lines 1203-1210: the matched observations leave their table
without_assoc(obs, assoc) == {o \in obs : o.candid \notin Candids(assoc)}

\* observations_associations_begin with a guard that looks at the old
\* observations only
observations_associations_begin_old_only ==
    /\ pc = "pass4"
    /\ pass_in' = [pass |-> 4, left |-> old_observations, right |-> new_observations,
                   last_trajectory_id |-> last_trajectory_id]
    /\ IF old_observations = {}
       THEN /\ ret' = [done |-> TRUE,
                       value |-> <<old_observations, new_observations, NoReport>>]
            /\ pc' = "pass4_returned"
            /\ UNCHANGED <<nids, report>>
       ELSE /\ nids' = SortDesc({o.nid : o \in old_observations})
            /\ report' = [report EXCEPT ![4] = [NoReport EXCEPT !.ran = TRUE]]
            /\ pc' = "pass4_loop"
            /\ UNCHANGED ret
    /\ UNCHANGED <<trajectory_df, old_observations, new_observations,
                   last_trajectory_id, last_call>>
    /\ pass4_frame

\* lines 1144-1153: the guard returns three values, the second branch sets
\* the loop up
observations_associations_begin ==
    /\ pc = "pass4"
    /\ pass_in' = [pass |-> 4, left |-> old_observations, right |-> new_observations,
                   last_trajectory_id |-> last_trajectory_id]
    /\ IF old_observations = {} \/ new_observations = {}
       THEN /\ ret' = [done |-> TRUE,
                       value |-> <<old_observations, new_observations, NoReport>>]
            /\ pc' = "pass4_returned"
            /\ UNCHANGED <<nids, report>>
       ELSE /\ nids' = SortDesc({o.nid : o \in old_observations})
            /\ report' = [report EXCEPT ![4] = [NoReport EXCEPT !.ran = TRUE]]
            /\ pc' = "pass4_loop"
            /\ UNCHANGED ret
    /\ UNCHANGED <<trajectory_df, old_observations, new_observations,
                   last_trajectory_id, last_call>>
    /\ pass4_frame

\* lines 1155-1220: one turn of 'for obs_nid in old_obs_nid'
observations_associations_nid ==
    /\ pc = "pass4_loop"
    /\ nids # << >>
    /\ LET obs_nid == Head(nids)
           current_old_obs == {o \in old_observations : o.nid = obs_nid}
       IN  \E m \in night_to_night_observation_association(current_old_obs, new_observations) :
              LET left_assoc == {m[i].left : i \in DOMAIN m}
                  right_assoc == {m[i].right : i \in DOMAIN m}
              IN  /\ last_trajectory_id' = last_trajectory_id + Len(m)
                  /\ old_observations' = without_assoc(old_observations, left_assoc)
                  /\ new_observations' = without_assoc(new_observations, right_assoc)
                  /\ trajectory_df' =
                         trajectory_df \cup new_two_point_trajectories(last_trajectory_id, m)
                  /\ report' = [report EXCEPT
                         ![4].entries = Append(@, [nid |-> obs_nid, nb |-> Len(m),
                                                   has_dup |-> TRUE, dup |-> 0]),
                         ![4].updated = @ \cup {new_trajectory_id(last_trajectory_id, m, i) :
                                                   i \in DOMAIN m}]
                  /\ last_call' = [pass |-> 4, nid |-> obs_nid, m |-> m,
                                   criteria |-> observation_matcher_criteria(obs_nid),
                                   left |-> old_observations, right |-> new_observations]
    /\ nids' = Tail(nids)
    /\ UNCHANGED <<pc, ret, pass_in>>
    /\ pass4_frame

\* lines 1222-1230
observations_associations_return ==
    /\ pc = "pass4_loop"
    /\ nids = << >>
    /\ ret' = [done |-> TRUE,
               value |-> <<trajectory_df, old_observations, new_observations, report[4]>>]
    /\ pc' = "pass4_returned"
    /\ UNCHANGED <<trajectory_df, old_observations, new_observations,
                   last_trajectory_id, nids, report, pass_in, last_call>>
    /\ pass4_frame

NextPass4 ==
    \/ observations_associations_begin
    \/ observations_associations_nid
    \/ observations_associations_return

\* the entry points of the module: a night's cycle, or pass 4 on its own
InitPasses == Init \/ InitPass4

NextPasses == Next \/ NextPass4

SpecPasses == InitPasses /\ [][NextPasses]_vars

(***************************************************************************)
(* A night of six observations over two recorded trajectories, the older    *)
(* one holding the larger id: enough for two tracklets and two single       *)
(* observations to meet the same trajectory.                                *)
(***************************************************************************)
\* a trajectory the previous night updated: nothing sets not_updated back to
\* True between two calls (the reset of line 1648 stands after sys.exit)
UpdatedLastNight(df) == {[r EXCEPT !.nu = FALSE] : r \in df}

LongNightTrajectories ==
    {{},
     TrajA(3) \cup TrajB(2, NotComputed),
     TrajA(3) \cup TrajB(2, Computed),
     TrajA(3) \cup UpdatedLastNight(TrajB(2, NotComputed))}

LongNightOldObservations == {{Obs(8, 5), Obs(9, 5)}}

LongNightNewObservations == {{Obs(c, Night.next_nid) : c \in 11 .. 16}}

InitLongNight ==
    /\ trajectory_df \in LongNightTrajectories
    /\ old_observation \in LongNightOldObservations
    /\ new_observation \in LongNightNewObservations
    /\ columns = RequiredColumns
    /\ pc = "start"
    /\ last_trajectory_id = 0
    /\ old_traj = {}
    /\ trajectories = {}
    /\ tracklets = {}
    /\ new_observations = {}
    /\ old_observations = {}
    /\ two_last = {}
    /\ extremity = {}
    /\ nids = << >>
    /\ other_traj = {}
    /\ not_updated_tracklets = {}
    /\ batch = [w \in Workers |-> {}]
    /\ wstate = [w \in Workers |-> "idle"]
    /\ q = << >>
    /\ tmp_traj_orb_elem = << >>
    /\ terminated = {}
    /\ ret = NoRet
    /\ report = [p \in 1 .. 3 |-> NoReport]
    /\ pass_in = NoPass
    /\ last_call = NoCall
    /\ minted = {}

SpecLongNight == InitLongNight /\ [][Next]_vars

(***************************************************************************)
(* A trajectory table that lacks a column.  No line of the module checks    *)
(* the columns: the first df[c] on a missing column raises KeyError, which  *)
(* nothing catches.                                                         *)
(***************************************************************************)
\* the next statement of night_to_night_association reads a missing column:
\* line 1409; lines 178-180 and 549-551 behind the emptiness test of the pass;
\* line 1464
reads_missing_column ==
    \/ pc = "start" /\ ~Has("trajectory_id")
    \/ /\ pc = "pass1"
       /\ trajectories # {} /\ tracklets # {}
       /\ ~(Has("not_updated") /\ Has("a"))
    \/ pc = "pass1_loop" /\ nids = << >> /\ ~Has("not_updated")
    \/ /\ pc = "pass2"
       /\ trajectories # {} /\ new_observations # {}
       /\ ~(Has("not_updated") /\ Has("a"))

\* the KeyError leaves night_to_night_association; the processes already
\* started are not joined
raise_key_error ==
    /\ reads_missing_column
    /\ pc' = "key_error"
    /\ UNCHANGED <<last_trajectory_id, old_traj, trajectories, tracklets,
                   new_observations, old_observations, two_last, extremity, nids,
                   other_traj, not_updated_tracklets, batch, wstate, q,
                   tmp_traj_orb_elem, terminated, ret, report, pass_in, last_call,
                   minted>>
    /\ inputs_unchanged

ColumnsTrajectories == {{}, TrajA(1) \cup TrajB(2, NotComputed)}

ColumnsOldObservations == {{Obs(8, 5)}}

ColumnsNewObservations == {{}, {Obs(c, Night.next_nid) : c \in 11 .. 14}}

\* the caller's table has every column or lacks one
InputColumns == {RequiredColumns} \cup {RequiredColumns \ {c} : c \in RequiredColumns}

InitColumns ==
    /\ trajectory_df \in ColumnsTrajectories
    /\ old_observation \in ColumnsOldObservations
    /\ new_observation \in ColumnsNewObservations
    /\ columns \in InputColumns
    /\ pc = "start"
    /\ last_trajectory_id = 0
    /\ old_traj = {}
    /\ trajectories = {}
    /\ tracklets = {}
    /\ new_observations = {}
    /\ old_observations = {}
    /\ two_last = {}
    /\ extremity = {}
    /\ nids = << >>
    /\ other_traj = {}
    /\ not_updated_tracklets = {}
    /\ batch = [w \in Workers |-> {}]
    /\ wstate = [w \in Workers |-> "idle"]
    /\ q = << >>
    /\ tmp_traj_orb_elem = << >>
    /\ terminated = {}
    /\ ret = NoRet
    /\ report = [p \in 1 .. 3 |-> NoReport]
    /\ pass_in = NoPass
    /\ last_call = NoCall
    /\ minted = {}

NextColumns == Next \/ raise_key_error

SpecColumns == InitColumns /\ [][NextColumns]_vars

(***************************************************************************)
(* Vocabulary of the properties                                            *)
(***************************************************************************)
NormalCycle == trajectory_df # {}

Started == {w \in Workers : wstate[w] # "idle"}

\* every row some table of the cycle holds
LiveRows ==
    old_traj \cup trajectories \cup tracklets \cup other_traj
        \cup not_updated_tracklets \cup batch[1] \cup batch[2] \cup batch[3]
        \cup ret.trajectory_df

\* the pass whose loop is over and that is about to return
PassReturned(p) ==
    /\ pass_in.pass = p
    /\ nids = << >>
    /\ pc = CASE p = 1 -> "pass1_loop" [] p = 2 -> "pass2_loop" [] OTHER -> "pass3_loop"

\* the left-hand table of pass p and what is left of its right-hand table
LeftTable(p) == IF p = 3 THEN tracklets ELSE trajectories

RightRemainder(p) ==
    CASE p = 1 -> Candids(tracklets)
      [] p = 2 -> Candids(new_observations)
      [] OTHER -> Candids(old_observations)

\* the right-hand table of pass p (1, 2 or 3) as the pass holds it now
RightTable(p) ==
    CASE p = 1 -> tracklets
      [] p = 2 -> {AsRow(o, 0, TRUE) : o \in new_observations}
      [] OTHER -> {AsRow(o, 0, TRUE) : o \in old_observations}

\* the current pass was called with an empty left-hand or right-hand table
EmptyInput(p) == pass_in.pass = p /\ (pass_in.left = {} \/ pass_in.right = {})

\* the trajectory ids of table df that hold observation c
Holders(df, c) == {t \in Ids(df) : c \in Candids(RowsOf(df, t))}

\* the observations a right-hand row of the matcher's result brings: the whole
\* tracklet in pass 1, the observation itself in passes 2 and 3
Continuation(p, right) ==
    IF p = 1 THEN Candids(RowsOf(pass_in.right, right)) ELSE {right.candid}

\* the orchestrator waits on an empty queue that no worker will fill
Blocked ==
    /\ \/ pc = "get" /\ Len(tmp_traj_orb_elem) < NbReceive
       \/ pc = "empty_get"
    /\ q = << >>
    /\ \A w \in Workers : wstate[w] # "running"

(***************************************************************************)
(* C1: every id minted for a fork differs from every id already held by an *)
(* active or archived trajectory, a tracklet of the night, or a trajectory  *)
(* minted earlier in the night, so that no id labels two trajectories.      *)
(* The code takes max(trajectory_id) of the pass's own left-hand table.     *)
(***************************************************************************)
C1_ForkIdsAreFresh == \A x \in minted : ~x.held

(***************************************************************************)
(* C2: when a nid iteration returns k > 1 matches for one left-hand id, the *)
(* left-hand table holds exactly k trajectories with that trajectory's      *)
(* history, each being the history plus exactly one of the k continuations, *)
(* no continuation attached twice.                                          *)
(***************************************************************************)
C2_DuplicateResolution ==
    last_call.pass # 0 =>
        LET m == last_call.m
            df == LeftTable(last_call.pass)
        IN  \A t \in {m[i].tid : i \in DOMAIN m} :
               LET I == {i \in DOMAIN m : m[i].tid = t}
                   history == Candids(RowsOf(pass_in.left, t))
                   holders == {u \in Ids(df) : history \subseteq Candids(RowsOf(df, u))}
               IN  Cardinality(I) > 1 =>
                      /\ Cardinality(holders) = Cardinality(I)
                      /\ \E f \in [I -> holders] :
                            /\ \A i, j \in I : i # j => f[i] # f[j]
                            /\ \A i \in I :
                                  Candids(RowsOf(df, f[i])) =
                                      history \cup Continuation(last_call.pass, m[i].right)

(***************************************************************************)
(* C3: when no worker fails, the cycle terminates: every started worker     *)
(* puts a result on the queue, also for an empty batch, so the orchestrator *)
(* never waits on a queue nobody will fill.                                 *)
(***************************************************************************)
C3_CycleTerminates ==
    (\A w \in Workers : wstate[w] # "failed") => ~Blocked

(***************************************************************************)
(* C4: conservation.  When a pass returns, every observation of its         *)
(* right-hand input is either under exactly one trajectory id of the        *)
(* returned left-hand table or in the returned remainder, not both, not     *)
(* neither.                                                                 *)
(***************************************************************************)
C4_Conservation ==
    \A p \in 1 .. 3 :
        PassReturned(p) =>
            \A c \in Candids(pass_in.right) :
                \/ Cardinality(Holders(LeftTable(p), c)) = 1 /\ c \notin RightRemainder(p)
                \/ Holders(LeftTable(p), c) = {} /\ c \in RightRemainder(p)

EmptyNight == new_observation = {} /\ trajectory_df # {}

C6_EmptyNightIdempotent ==
    EmptyNight /\ (\A w \in Workers : wstate[w] # "failed") =>
        /\ ~Blocked
        /\ ret.done =>
              /\ {<<r.tid, r.candid>> : r \in ret.trajectory_df}
                     = {<<r.tid, r.candid>> : r \in trajectory_df}
              /\ ret.old_observation =
                     window_old_observation(old_observation, Night.next_nid, Night.time_window)
              /\ \A p \in 1 .. 3 : \A i \in DOMAIN report[p].entries :
                     report[p].entries[i].nb = 0

(***************************************************************************)
(* C7: in a normal cycle worker i is started after pass i returned and      *)
(* before the next pass begins; nothing is received from the queue before   *)
(* the three passes returned and the three workers were started; exactly    *)
(* three receives precede the concatenation.                                *)
(***************************************************************************)
C7_SpawnAndJoinOrder ==
    NormalCycle =>
        /\ pc \in {"start", "pass1", "pass1_loop"} => Started = {}
        /\ pc \in {"pass2", "pass2_loop"} => Started = {1}
        /\ pc \in {"pass3", "pass3_loop"} => Started = {1, 2}
        /\ pc \in {"get", "returned"} => Started = {1, 2, 3}
        /\ tmp_traj_orb_elem # << >> => pc \in {"get", "returned"}
        /\ Len(tmp_traj_orb_elem) <= 3
        /\ ret.done => Len(tmp_traj_orb_elem) = 3

\* a normal cycle returned
C7_Witness == NormalCycle /\ ret.done /\ pc = "returned" /\ Started = {1, 2, 3}

(***************************************************************************)
(* C8: when a normal cycle returns, every worker it started has been        *)
(* terminated by the orchestrator.                                          *)
(***************************************************************************)
C8_AllWorkersTerminated ==
    NormalCycle /\ ret.done => Started \subseteq terminated

(***************************************************************************)
(* C9: a worker that fails before publishing ends the cycle in an error:    *)
(* the orchestrator neither waits forever on the queue nor returns without  *)
(* the batch.                                                               *)
(***************************************************************************)
C9_WorkerFailureIsFatal ==
    (\E w \in Workers : wstate[w] = "failed") => ~Blocked /\ ~ret.done

(***************************************************************************)
(* C10: the returned trajectory table holds the result of every batch that  *)
(* was started, and as long as no result is returned the caller's tables    *)
(* are left as they were.                                                   *)
(***************************************************************************)
C10_AllOrNothing ==
    /\ [](ret.done =>
            \A w \in Started : compute_df_orbit_param(batch[w]) \subseteq ret.trajectory_df)
    /\ [][~ret.done' =>
            UNCHANGED <<trajectory_df, old_observation, new_observation>>]_vars

\* a cycle returned a table holding three non-empty batches
C10_Witness ==
    ret.done /\ Started = {1, 2, 3} /\ \A w \in Workers : batch[w] # {}

(***************************************************************************)
(* C11: a pass called with an empty left-hand or right-hand table returns   *)
(* its two tables as it got them and an empty report, without a call of the *)
(* matcher.  For passes 1 to 3 the state is the one the pass returns from;  *)
(* pass 4 has returned.                                                     *)
(***************************************************************************)
C11_EmptyInputShortCircuit ==
    /\ \A p \in 1 .. 3 :
          EmptyInput(p) =>
              /\ PassReturned(p)
              /\ LeftTable(p) = pass_in.left
              /\ RightTable(p) = pass_in.right
              /\ report[p] = NoReport
              /\ last_call = NoCall
    /\ EmptyInput(4) =>
          /\ pc = "pass4_returned"
          /\ ret.done
          /\ ret.value = <<pass_in.left, pass_in.right, NoReport>>
          /\ report[4] = NoReport
          /\ last_call = NoCall

\* pass 4 returned from a call with old observations and no new observation
C11_Witness ==
    EmptyInput(4) /\ pass_in.left # {} /\ pass_in.right = {} /\ pc = "pass4_returned"

(***************************************************************************)
(* C12: a normal cycle runs pass 4 after pass 3: the orchestrator comes to  *)
(* the join of the workers only from the return of                          *)
(* observations_associations, called on what passes 3 and 2 left.  The code *)
(* goes from the start of the third worker to the join (line 1533 prints    *)
(* the name of the pass and calls nothing).                                 *)
(***************************************************************************)
C12_FourthPassAfterThird ==
    [][(pc # "get" /\ pc' = "get") => (pc = "pass4_loop" /\ pass_in.pass = 4)]_vars

(***************************************************************************)
(* C13: given as last_trajectory_id the last (maximum) id already assigned, *)
(* every id pass 4 gives to a new 2-point trajectory is strictly greater    *)
(* than it, the ids given over the nid iterations of the call are pairwise  *)
(* distinct, and each id labels exactly one old and one new observation.    *)
(* The code counts from last_trajectory_id itself.                          *)
(***************************************************************************)
RECURSIVE NbAssociations(_)
NbAssociations(entries) ==
    IF entries = << >> THEN 0 ELSE Head(entries).nb + NbAssociations(Tail(entries))

Pass4IdsDistinct ==
    pass_in.pass = 4 =>
        Cardinality(Ids(trajectory_df)) = NbAssociations(report[4].entries)

Pass4OneOldOneNew ==
    pass_in.pass = 4 =>
        \A t \in Ids(trajectory_df) :
            /\ Cardinality({r \in RowsOf(trajectory_df, t) :
                               r.candid \in Candids(pass_in.left)}) = 1
            /\ Cardinality({r \in RowsOf(trajectory_df, t) :
                               r.candid \in Candids(pass_in.right)}) = 1

C13_Pass4MintsFreshIds ==
    /\ pass_in.pass = 4 =>
          \A t \in Ids(trajectory_df) : t > pass_in.last_trajectory_id
    /\ Pass4IdsDistinct
    /\ Pass4OneOldOneNew

(***************************************************************************)
(* C14 as stated: when the intra-night step is done the next available id   *)
(* is max(trajectory_id) + 1 for a non-empty trajectory table and 0 for an  *)
(* empty one, and it is the first id given to the night's tracklets.        *)
(***************************************************************************)
SeedDone == pc \in {"empty_branch", "pass1"}

C15_FlagReset == ret.done => \A r \in ret.trajectory_df : r.nu

(***************************************************************************)
(* C16: the archived partition is frozen during a cycle: old_traj stays     *)
(* what time_window_management returned, no observation of it is in a       *)
(* table handed to a pass, to prep_orbit_computation or to a worker, and    *)
(* every one of its rows is in the trajectory table a normal cycle returns. *)
(***************************************************************************)
C16_ArchiveFrozen ==
    NormalCycle /\ pc # "start" =>
        LET archived == Candids(old_traj)
        IN  /\ old_traj = oldest_traj(trajectory_df, Night.next_nid, Night.time_window)
            /\ archived \cap
                   Candids(trajectories \cup tracklets \cup other_traj
                           \cup not_updated_tracklets \cup pass_in.left \cup pass_in.right
                           \cup batch[1] \cup batch[2] \cup batch[3]) = {}
            /\ \A i \in DOMAIN q : archived \cap Candids(q[i]) = {}
            /\ ret.done => old_traj \subseteq ret.trajectory_df

\* a normal cycle with an archived trajectory and three non-empty batches returned
C16_Witness ==
    NormalCycle /\ ret.done /\ old_traj # {} /\ \A w \in Workers : batch[w] # {}

(***************************************************************************)
(* C17: every trajectory id of the input trajectory table is in the         *)
(* returned trajectory table, with at least the observations it had on      *)
(* input, whichever path it took.                                           *)
(***************************************************************************)
C17_NoTrajectoryDeleted ==
    ret.done =>
        \A t \in Ids(trajectory_df) :
            /\ t \in Ids(ret.trajectory_df)
            /\ Candids(RowsOf(trajectory_df, t)) \subseteq Candids(RowsOf(ret.trajectory_df, t))

\* a returned cycle whose input trajectories took the three paths: archived,
\* sent to a worker, kept in a remainder
C17_Witness ==
    /\ ret.done
    /\ old_traj # {}
    /\ Ids(trajectory_df) \cap Ids(batch[1] \cup batch[2]) # {}
    /\ Ids(trajectory_df) \cap Ids(other_traj) # {}

(***************************************************************************)
(* C18: with an empty input trajectory table, every old observation given   *)
(* to night_to_night_association that is inside the retention window is in  *)
(* the returned observation table.  The branch of the empty table returns   *)
(* the remaining new observations only.                                     *)
(***************************************************************************)
C18_OldObservationsPassThrough ==
    trajectory_df = {} /\ ret.done =>
        window_old_observation(old_observation, Night.next_nid, Night.time_window)
            \subseteq ret.old_observation

(***************************************************************************)
(* C19: the acceleration filter is the last gate of a cycle: no trajectory  *)
(* of 3 points or more whose mean absolute angular acceleration is above    *)
(* the threshold is in the returned trajectory table, and every trajectory  *)
(* of fewer than 3 points of the joined tables is.  The code returns the    *)
(* concatenation of the joined tables.                                      *)
(***************************************************************************)
C19_AccelerationFilterIsLastGate ==
    NormalCycle /\ ret.done =>
        /\ \A t \in Ids(ret.trajectory_df) : ~acceleration_rejected(ret.trajectory_df, t)
        /\ \A t \in Ids(returned_trajectory_df) :
              traj_length(returned_trajectory_df, t) < orbfit_limit =>
                  RowsOf(returned_trajectory_df, t) \subseteq ret.trajectory_df

(***************************************************************************)
(* C20: first seen wins.  Among the matches of one nid iteration that carry *)
(* the same left-hand trajectory id, the first one in the order of the      *)
(* matcher's result is attached to the original id and each later one to a  *)
(* fork whose id, new in the left-hand table, is fixed by the rank of the   *)
(* match among the duplicated rows.                                         *)
(***************************************************************************)
C20_FirstSeenWins ==
    last_call.pass \in 1 .. 3 =>
        LET m == last_call.m
            p == last_call.pass
            df == LeftTable(p)
        IN  \A i \in DOMAIN m :
               Cardinality({j \in DOMAIN m : m[j].tid = m[i].tid}) > 1 =>
                  IF i \in duplicated(m)
                  THEN /\ fork_id(last_call.left, m, i) \notin Ids(last_call.left)
                       /\ Continuation(p, m[i].right)
                              \subseteq Candids(RowsOf(df, fork_id(last_call.left, m, i)))
                  ELSE Continuation(p, m[i].right) \subseteq Candids(RowsOf(df, m[i].tid))

(***************************************************************************)
(* C21 as stated: in a pass that went past its guard the matcher is called  *)
(* once per distinct night id of the cascading side (tail night of the      *)
(* not-yet-updated trajectories in passes 1 and 2, night of the old         *)
(* observations in passes 3 and 4), in strictly descending order, and the   *)
(* report has one entry per night id in that order.  The nights already     *)
(* done, followed by the nights still to do, are the descending list.       *)
(***************************************************************************)
EntryNids(p) == [i \in DOMAIN report[p].entries |-> report[p].entries[i].nid]

InPass(p) == pass_in.pass = p /\ ~EmptyInput(p)

\* tail nights of the trajectories of df
TailNids(df) == {LastNid(df, t) : t \in Ids(df)}

OldObservationsCascade ==
    /\ InPass(3) => EntryNids(3) \o nids = SortDesc({r.nid : r \in pass_in.right})
    /\ InPass(4) => EntryNids(4) \o nids = SortDesc({o.nid : o \in pass_in.left})

C21_CascadeOrder ==
    /\ \A p \in 1 .. 2 :
          InPass(p) =>
              EntryNids(p) \o nids = SortDesc(TailNids({r \in pass_in.left : r.nu}))
    /\ OldObservationsCascade

(***************************************************************************)
(* C21 amended: in passes 1 and 2 the cascading side is the tail nights of  *)
(* the trajectories that are not yet updated and have no orbital elements   *)
(* (a = -1.0); the matcher is not called for the tail night of a trajectory *)
(* whose orbit is computed.  The rest is as stated.                         *)
(***************************************************************************)
C21_CascadeOrderWithoutOrbit ==
    /\ \A p \in 1 .. 2 :
          InPass(p) =>
              EntryNids(p) \o nids =
                  SortDesc(TailNids({r \in pass_in.left : r.nu /\ r.a = NotComputed}))
    /\ OldObservationsCascade

\* pass 2 did its two nights, most recent first
C21_Witness ==
    InPass(2) /\ nids = << >> /\ EntryNids(2) = <<5, 4>>

(***************************************************************************)
(* C22: in every nid iteration of passes 1 to 4 the separation tolerance    *)
(* and the two magnitude tolerances handed to the matcher are the           *)
(* configured values times (next_nid - nid of the iteration); in passes 1   *)
(* to 3 the angle criterion is handed over unchanged.                       *)
(***************************************************************************)
C22_CriteriaScaling ==
    last_call.pass # 0 =>
        /\ last_call.criteria.norm_sep_crit =
               Criteria.sep_criterion * (Night.next_nid - last_call.nid)
        /\ last_call.criteria.norm_same_fid =
               Criteria.mag_criterion_same_fid * (Night.next_nid - last_call.nid)
        /\ last_call.criteria.norm_diff_fid =
               Criteria.mag_criterion_diff_fid * (Night.next_nid - last_call.nid)
        /\ last_call.pass \in 1 .. 3 =>
               last_call.criteria.angle_criterion = Criteria.angle_criterion
        /\ last_call.pass = 4 =>
               DOMAIN last_call.criteria = {"norm_sep_crit", "norm_same_fid", "norm_diff_fid"}

\* pass 1 called the matcher for a tail night two nights back and got a match
C22_Witness ==
    last_call.pass = 1 /\ last_call.nid = Night.next_nid - 2 /\ Len(last_call.m) > 0

(***************************************************************************)
(* C23: pass 2 only sees what pass 1 left: no trajectory that absorbed a    *)
(* tracklet in pass 1 and no fork of pass 1 is in the table handed to pass  *)
(* 2; and once the three passes are done no trajectory id has gained        *)
(* observations from more than one pass.  A fork takes max(id) + 1 of its   *)
(* own pass's table, an id that another pass may have used.                 *)
(***************************************************************************)
\* the ids that gained observations in pass 1, 2 and 3: the rows a pass
\* attached or copied carry not_updated = False
GainedInPass(p) ==
    CASE p = 1 -> Ids({r \in batch[1] : ~r.nu})
      [] p = 2 -> Ids({r \in batch[2] \cup other_traj : ~r.nu})
      [] OTHER -> Ids({r \in batch[3] : ~r.nu})

Pass2SeesWhatPass1Left ==
    pass_in.pass = 2 =>
        /\ \A r \in pass_in.left : r.nu /\ r.nid # Night.next_nid
        /\ Ids(pass_in.left) \cap ({x.id : x \in {y \in minted : y.pass = 1}}
                                     \cup GainedInPass(1)) = {}

C23_OnePassPerTrajectory ==
    /\ Pass2SeesWhatPass1Left
    /\ NormalCycle /\ pc \in {"get", "returned"} =>
          \A p1, p2 \in 1 .. 3 : p1 # p2 => GainedInPass(p1) \cap GainedInPass(p2) = {}

(***************************************************************************)
(* C24: pass 1 absorption, stated on each nid iteration.  For every first   *)
(* match (trajectory, tracklet) of the matcher's result all observations    *)
(* of the tracklet carry the trajectory's id in the trajectory table and no *)
(* row of the tracklet is left in the pool; every tracklet of the pool that *)
(* the result does not name is still in the pool with its rows and its      *)
(* provisional id.                                                          *)
(***************************************************************************)
C24_Pass1Absorption ==
    last_call.pass = 1 =>
        LET m == last_call.m
        IN  /\ \A i \in DOMAIN m \ duplicated(m) :
                  /\ Candids(RowsOf(pass_in.right, m[i].right))
                         \subseteq Candids(RowsOf(trajectories, m[i].tid))
                  /\ RowsOf(tracklets, m[i].right) = {}
            /\ \A t \in Ids(last_call.right) \ {m[i].right : i \in DOMAIN m} :
                  RowsOf(tracklets, t) = RowsOf(last_call.right, t)

\* the last entry of the report of pass p
LastEntry(p) == report[p].entries[Len(report[p].entries)]

\* the forks minted in nid iteration tr_nid of pass p
MintedIn(p, tr_nid) == {x \in minted : x.pass = p /\ x.nid = tr_nid}

(***************************************************************************)
(* C25: in passes 1-3, for every nid iteration that produced at least one   *)
(* match, the reported number of duplicated associations equals the number  *)
(* of matches minus the number of distinct left-hand trajectory ids         *)
(* matched, which equals the number of forks minted in that iteration (the  *)
(* ids the iteration added to the left-hand table).                         *)
(***************************************************************************)
C25_DuplicateCount ==
    last_call.pass \in 1 .. 3 /\ Len(last_call.m) > 0 =>
        LET m == last_call.m
            p == last_call.pass
            entry == LastEntry(p)
        IN  /\ entry.nid = last_call.nid
            /\ entry.has_dup
            /\ entry.dup = Len(m) - Cardinality({m[i].tid : i \in DOMAIN m})
            /\ entry.dup = Cardinality(MintedIn(p, last_call.nid))
            /\ entry.dup = Cardinality(Ids(LeftTable(p)) \ Ids(last_call.left))

\* C25 witness: a nid iteration of pass 1 whose two matches name the same
\* trajectory, reported with one duplicated association and one fork
C25_Witness ==
    /\ last_call.pass = 1
    /\ Len(last_call.m) = 2
    /\ LastEntry(1).dup = 1
    /\ Cardinality(MintedIn(1, last_call.nid)) = 1


(***************************************************************************)
(* C26: for every pass and every night id processed by that pass, the       *)
(* per-nid report entry contains a duplicate count, also when the matcher   *)
(* returned no match for that night id (the count is then 0).               *)
(***************************************************************************)
C26_ReportShape ==
    \A p \in DOMAIN report :
        \A i \in DOMAIN report[p].entries :
            LET entry == report[p].entries[i]
            IN  /\ entry.has_dup
                /\ entry.nb = 0 => entry.dup = 0


\* trajectory t of table df carries not_updated = False
FlagCleared(df, t) == \A r \in RowsOf(df, t) : ~r.nu

\* pass p attached at least one observation to trajectory t of its table
Attached(p, t) ==
    ~(Candids(RowsOf(LeftTable(p), t)) \subseteq Candids(RowsOf(pass_in.left, t)))

(***************************************************************************)
(* C27: given an input in which every left-hand trajectory has not_updated  *)
(* = true, after each of passes 1-3 a trajectory of the returned left-hand  *)
(* table has not_updated = false if and only if the pass attached at least  *)
(* one observation to it or it is a fork created by the pass; the original  *)
(* of a forked trajectory and all its forks are false.                      *)
(***************************************************************************)
C27_FlagClearing ==
    \A p \in 1 .. 3 :
        PassReturned(p) /\ (\A r \in pass_in.left : r.nu) =>
            LET forks == {x \in minted : x.pass = p}
            IN  /\ \A t \in Ids(LeftTable(p)) :
                      FlagCleared(LeftTable(p), t)
                          <=> (Attached(p, t) \/ t \in {x.id : x \in forks})
                /\ \A x \in forks :
                      /\ FlagCleared(LeftTable(p), x.parent)
                      /\ FlagCleared(LeftTable(p), x.id)


(***************************************************************************)
(* C28: for every order in which the three workers put their results on the *)
(* shared queue, night_to_night_association returns the same set of         *)
(* trajectory rows, the same observation table and the same report: what is *)
(* returned is a function of the tables of the three passes and of the      *)
(* three batches, whatever the order of the received tables, and a step of  *)
(* a worker or a q.get() changes no report.                                 *)
(***************************************************************************)
C28_CompletionOrderIndependence ==
    /\ [](NormalCycle /\ ret.done =>
            /\ ret.trajectory_df =
                   old_traj \cup UNION {compute_df_orbit_param(batch[w]) : w \in Workers}
                            \cup other_traj \cup not_updated_tracklets
            /\ ret.old_observation = old_observations \cup new_observations)
    /\ [][q' # q \/ wstate' # wstate => report' = report]_vars

\* C28 witness: a cycle returned after the table of the worker started last
\* was received first and the table of the worker started first was received last
C28_Witness ==
    /\ NormalCycle
    /\ ret.done
    /\ tmp_traj_orb_elem[1] = compute_df_orbit_param(batch[3])
    /\ tmp_traj_orb_elem[3] = compute_df_orbit_param(batch[1])
    /\ Cardinality({compute_df_orbit_param(batch[w]) : w \in Workers}) = 3


\* the five parts the rows of a normal cycle end in
Parts == <<batch[1], batch[2], batch[3], other_traj, not_updated_tracklets>>

\* the tables of the three passes are split and the third worker is started
AllHandedOut == NormalCycle /\ pc \in {"get", "returned"}

\* the rows handed to a worker before pass p is called
HandedBefore(p) == UNION {batch[w] : w \in 1 .. p - 1}

\* the observations of the active trajectories and of what the night added to
\* a trajectory or a tracklet
ActiveCandids ==
    Candids(most_recent_traj(trajectory_df, Night.next_nid, Night.time_window))
        \cup (Candids(new_observation) \ Candids(new_observations))

(***************************************************************************)
(* C29: in a normal cycle every row of the active trajectories (forks       *)
(* included) and of the night's tracklets is in exactly one of five parts:  *)
(* the batches of workers 1, 2 and 3, the short-trajectory remainder of     *)
(* pass 2 (other_traj) and the not-updated tracklets of pass 3.  No row is  *)
(* in two parts or in none, and no table read by a later pass contains a    *)
(* row that was handed to a worker.                                         *)
(***************************************************************************)
C29_BatchOwnership ==
    /\ AllHandedOut =>
          /\ \A i, j \in DOMAIN Parts : i # j => Parts[i] \cap Parts[j] = {}
          /\ ActiveCandids \subseteq Candids(UNION {Parts[i] : i \in DOMAIN Parts})
          /\ {x.id : x \in minted} \subseteq Ids(UNION {Parts[i] : i \in DOMAIN Parts})
    /\ \A p \in 2 .. 3 :
          pass_in.pass = p =>
              /\ pass_in.left \cap HandedBefore(p) = {}
              /\ LeftTable(p) \cap HandedBefore(p) = {}


\* trajectory t of table df was updated or created during this night: it holds
\* an observation of the night or it is a fork
UpdatedThisNight(df, t) ==
    \/ \E r \in RowsOf(df, t) : r.nid = Night.next_nid
    \/ t \in {x.id : x \in minted}

\* the active trajectories the cycle started from
ActiveInput == most_recent_traj(trajectory_df, Night.next_nid, Night.time_window)

(***************************************************************************)
(* C30: every trajectory handed to a background worker after pass 1, 2 or 3 *)
(* was updated or created during this night and has at least 3              *)
(* observations; every trajectory that was not updated this night, or has   *)
(* fewer than 3 observations, is kept out of the workers' batches and left  *)
(* untouched.                                                               *)
(***************************************************************************)
C30_OrbitEligibility ==
    NormalCycle =>
        /\ \A w \in Started : \A t \in Ids(batch[w]) :
              /\ UpdatedThisNight(batch[w], t)
              /\ Cardinality(RowsOf(batch[w], t)) >= orbfit_limit
        /\ pc \in {"get", "returned"} =>
              \A t \in Ids(ActiveInput) :
                  (\A i \in DOMAIN Parts : ~UpdatedThisNight(Parts[i], t)) =>
                      /\ RowsOf(other_traj, t) = RowsOf(ActiveInput, t)
                      /\ \A w \in Workers : t \notin Ids(batch[w])


(***************************************************************************)
(* C31: a trajectory table that lacks a required column is rejected with an *)
(* error before any matching pass runs and before any background worker is  *)
(* started; no cycle fails on a missing column after a pass has returned or *)
(* a worker has been launched.  (A KeyError raised by the first statement   *)
(* of pass 1, before its first call of the matcher, is counted as raised    *)
(* before any pass ran.)                                                    *)
(***************************************************************************)
C31_MissingColumnRejectedFirst ==
    /\ pc = "key_error" => Started = {} /\ pass_in.pass = 0
    /\ columns # RequiredColumns =>
          /\ Started = {}
          /\ \A p \in 1 .. 3 : ~PassReturned(p)


\* the trajectories of the table pass p was called with that the pass has to
\* leave alone: orbit already computed, or not_updated = False
LeftAlone(p) ==
    {t \in Ids(pass_in.left) :
        \A r \in RowsOf(pass_in.left, t) : r.a # NotComputed \/ ~r.nu}

(***************************************************************************)
(* C32: passes 1 and 2 leave alone every trajectory whose orbit is already  *)
(* computed (a != -1) and every trajectory whose not_updated flag is false: *)
(* such a trajectory is never offered to the matcher, gains no observation, *)
(* is never forked, and its rows are returned unchanged.                    *)
(***************************************************************************)
C32_ComputedAndUpdatedLeftAlone ==
    \A p \in 1 .. 2 :
        pass_in.pass = p =>
            \A t \in LeftAlone(p) :
                /\ t \notin {x.tid : x \in two_last}
                /\ last_call.pass = p =>
                      t \notin {last_call.m[i].tid : i \in DOMAIN last_call.m}
                /\ t \notin {x.parent : x \in {y \in minted : y.pass = p}}
                /\ RowsOf(LeftTable(p), t) = RowsOf(pass_in.left, t)

\* C32 witness: pass 2 attached observations and forked a trajectory of a
\* table that also holds a trajectory with a computed orbit
C32_Witness ==
    /\ PassReturned(2)
    /\ \E t \in LeftAlone(2) : \E r \in RowsOf(pass_in.left, t) : r.a = Computed
    /\ \E x \in minted : x.pass = 2


\* all rows of table df that share a trajectory id carry the same not_updated
UniformFlags(df) ==
    \A t \in Ids(df) : \A r1, r2 \in RowsOf(df, t) : r1.nu = r2.nu

(***************************************************************************)
(* C33: in the table returned by each of passes 1-3, all rows that share a  *)
(* trajectory id carry the same not_updated value, so the row-wise split on *)
(* not_updated made by the orchestrator after pass 1 and after pass 3 never *)
(* puts two observations of one trajectory into different parts.            *)
(***************************************************************************)
C33_FlagUniformity ==
    \A p \in 1 .. 3 :
        PassReturned(p) =>
            /\ UniformFlags(LeftTable(p))
            /\ Ids({r \in LeftTable(p) : ~r.nu}) \cap Ids({r \in LeftTable(p) : r.nu}) = {}

\* C33 witness: pass 1 returns a table holding a trajectory it updated, of
\* several rows, next to a trajectory it did not update
C33_Witness ==
    /\ PassReturned(1)
    /\ \E t \in Ids(trajectories) :
          /\ Attached(1, t)
          /\ \A r \in RowsOf(trajectories, t) : ~r.nu
    /\ \E r \in trajectories : r.nu


(***************************************************************************)
(* C34: every trajectory id listed under "updated trajectories" in the      *)
(* report of tracklets_associations has not_updated = false and holds at    *)
(* least one observation of this night in the returned trajectory table; in *)
(* particular a tracklet absorbed in the iteration of a more recent tail    *)
(* night is never matched again, and never counted as an association, in    *)
(* the iteration of an older tail night.                                    *)
(***************************************************************************)
C34_Pass1ReportAgreesWithData ==
    /\ PassReturned(1) =>
          \A t \in report[1].updated :
              /\ t \in Ids(trajectories)
              /\ FlagCleared(trajectories, t)
              /\ \E r \in RowsOf(trajectories, t) : r.nid = Night.next_nid
    /\ last_call.pass = 1 =>
          \A i \in DOMAIN last_call.m : last_call.m[i].right \in Ids(last_call.right)


(***************************************************************************)
(* C35: after night_to_night_association returns, every observation of the  *)
(* new night is either in the returned trajectory table (inside a tracklet  *)
(* or attached to a trajectory or fork) or in the returned observation      *)
(* table, never in both and never in neither; this holds in the             *)
(* empty-trajectory-table branch and in the normal branch.                  *)
(***************************************************************************)
C35_NewNightConserved ==
    ret.done =>
        \A o \in new_observation :
            (o.candid \in Candids(ret.trajectory_df)) # (o \in ret.old_observation)

\* C35 witness: a normal cycle returned with an observation of the night
\* attached to a recorded trajectory, one inside a tracklet and one left in the
\* observation table
C35_Witness ==
    /\ ret.done
    /\ NormalCycle
    /\ \E o \in new_observation : o \in ret.old_observation
    /\ \E r \in ret.trajectory_df :
          r.nid = Night.next_nid /\ r.tid \in Ids(trajectory_df)
    /\ \E r \in ret.trajectory_df :
          r.nid = Night.next_nid /\ r.tid \notin Ids(trajectory_df)


(***************************************************************************)
(* C36: observations_associations returns a result of the same shape on     *)
(* every path: (new trajectories, remaining old observations, remaining new *)
(* observations, report), also when the old or the new observation table is *)
(* empty, in which case the new-trajectory table is empty.                  *)
(***************************************************************************)
C36_Pass4ResultShape ==
    pc = "pass4_returned" =>
        /\ Len(ret.value) = 4
        /\ EmptyInput(4) =>
              /\ ret.value[1] = {}
              /\ ret.value[2] = pass_in.left
              /\ ret.value[3] = pass_in.right


\* worker w came to the end of compute_orbit_elem: it put its table or it
\* returned the empty one
Finished(w) == wstate[w] \in {"put", "returned"}

(***************************************************************************)
(* C37: every per-process scratch directory created by compute_orbit_elem   *)
(* is removed before the worker finishes, on the path that computes orbits  *)
(* and on the path taken for an empty batch, so no scratch directory        *)
(* outlives its worker.                                                     *)
(***************************************************************************)
C37_ScratchDirectoryRemoved ==
    \A w \in Workers : Finished(w) => current_ram_path(w) = "absent"

====
